---- MODULE Spec2Model ----
(***************************************************************************)
(* aggregatePaginated (src/src/aggregate-paginated.ts): keyset pagination  *)
(* over an aggregation, returning a Relay-style connection.                *)
(*                                                                         *)
(* Documents are records with the fields _id (unique, assigned in          *)
(* insertion order) and a (a value that may repeat).  A collection is the  *)
(* sequence of its documents in the store's natural (pre-sort) order.      *)
(* An ordered mapping (a SortSpec, a cursor position) is a sequence of     *)
(* <<key, value>> pairs.  null/undefined is Null for a number and NoCursor *)
(* for a cursor string.                                                    *)
(***************************************************************************)
EXTENDS Integers, Sequences, FiniteSets, TLC

VARIABLES
    docs,      \* the collection, in the store's natural order
    pc,        \* "idle" | "awaiting" | "resolved" | "rejected"
    req,       \* the AggregatePaginatedParams of the call
    countQ,    \* the countDocuments promise: "idle" | "inflight" | "ok" | "err"
    dataQ,     \* the aggregate().toArray() promise, likewise
    counted,   \* the value countDocuments resolved with
    fetched,   \* allDocuments, the value toArray() resolved with
    result,    \* the AggregatePaginatedResult the call resolved with
    error,     \* the error the call rejected with
    pages,     \* the _ids of the edges of each page of the walk so far
    walking    \* TRUE while a client follows endCursor from the first page

vars == <<docs, pc, req, countQ, dataQ, counted, fetched, result, error, pages, walking>>

(***************************************************************************)
(* Bounds                                                                  *)
(***************************************************************************)
NumDocs == 5
MaxLimit == 3
MaxSkip == 1
AsyncDocs == 2

Null == -1
NoCursor == <<>>
Values == {0, 1}

Min(x, y) == IF x < y THEN x ELSE y
Max(x, y) == IF x > y THEN x ELSE y
Range(s) == {s[i] : i \in DOMAIN s}
Reverse(s) == [i \in 1..Len(s) |-> s[Len(s) + 1 - i]]
Keys(m) == [i \in DOMAIN m |-> m[i][1]]

(***************************************************************************)
(* The store                                                               *)
(***************************************************************************)
Collections(n) ==
    UNION {{[i \in 1..k |-> [_id |-> i, a |-> f[i]]] : f \in [1..k -> Values]} : k \in 0..n}

\* $sort's comparison: d1 sorts strictly before d2 under the ordered sort spec
Before(d1, d2, sort) ==
    \E i \in DOMAIN sort :
        /\ \A j \in 1..(i - 1) : d1[sort[j][1]] = d2[sort[j][1]]
        /\ IF sort[i][2] = 1
           THEN d1[sort[i][1]] < d2[sort[i][1]]
           ELSE d1[sort[i][1]] > d2[sort[i][1]]

\* $sort: each document goes to the place given by the number of documents
\* that sort before it (ties keep the input order)
SortDocs(s, sort) ==
    LET rank == [i \in DOMAIN s |->
                    1 + Cardinality({j \in DOMAIN s :
                            \/ Before(s[j], s[i], sort)
                            \/ j < i /\ ~Before(s[i], s[j], sort)})]
    IN  [k \in DOMAIN s |-> s[CHOOSE i \in DOMAIN s : rank[i] = k]]

\* a query document against one stored document
MatchQuery(d, q) ==
    CASE q.kind = "all" -> TRUE
      [] q.kind = "eq"  -> d[q.field] = q.value
      [] q.kind = "or"  ->
            \E i \in DOMAIN q.clauses :
                LET c == q.clauses[i]
                IN  /\ \A j \in DOMAIN c.eq : d[c.eq[j][1]] = c.eq[j][2]
                    /\ IF c.op = "$gt" THEN d[c.field] > c.value
                                       ELSE d[c.field] < c.value

RunStage(s, stage) ==
    CASE stage.op = "$match" -> SelectSeq(s, LAMBDA d : MatchQuery(d, stage.arg))
      [] stage.op = "$skip"  -> SubSeq(s, stage.arg + 1, Len(s))
      [] stage.op = "$sort"  -> SortDocs(s, stage.arg)
      [] stage.op = "$limit" -> SubSeq(s, 1, Min(stage.arg, Len(s)))

\* collection.aggregate(stages).toArray()
RECURSIVE Aggregate(_, _)
Aggregate(s, stages) ==
    IF stages = <<>> THEN s
    ELSE Aggregate(RunStage(s, Head(stages)), Tail(stages))

\* collection.countDocuments(filter): a filter {k: v} selects the documents
\* whose field k exists and equals v
CountDocuments(s, filter) ==
    Cardinality({i \in DOMAIN s :
        \A k \in DOMAIN filter : k \in DOMAIN s[i] /\ s[i][k] = filter[k]})

(***************************************************************************)
(* ./utils: the cursor codec, the direction normalizer and the range query *)
(* builder                                                                 *)
(***************************************************************************)
FieldCode(f) == IF f = "_id" THEN 1 ELSE 2
CodeField(c) == IF c = 1 THEN "_id" ELSE "a"
FieldCodes == {1, 2}

\* the position of a document: the value of each field of the sort, in order
BuildCursor(document, sort) ==
    [i \in DOMAIN sort |-> <<sort[i][1], document[sort[i][1]]>>]

\* the opaque string: the key/value pairs serialized in order
EncodeCursor(position) ==
    [k \in 1..(2 * Len(position)) |->
        IF k % 2 = 1 THEN FieldCode(position[(k + 1) \div 2][1])
                     ELSE position[k \div 2][2]]

WellEncoded(c) ==
    /\ Len(c) % 2 = 0
    /\ \A k \in DOMAIN c : k % 2 = 1 => c[k] \in FieldCodes

DecodeCursor(c) ==
    [k \in 1..(Len(c) \div 2) |-> <<CodeField(c[2 * k - 1]), c[2 * k]>>]

HasKey(sort, f) == \E i \in DOMAIN sort : sort[i][1] = f

\* the tie-break: _id is appended, with the least priority, when absent
WithTieBreak(sort) == IF HasKey(sort, "_id") THEN sort ELSE Append(sort, <<"_id", 1>>)

InvertSort(sort) == [i \in DOMAIN sort |-> <<sort[i][1], 0 - sort[i][2]>>]

\* {limit, cursor, sort, paginatingBackwards}, or the error raised.  A
\* backward-style argument selects the backward direction; the limit and the
\* cursor are those of the selected direction; going backward every direction
\* of the total order (tie-break included) is inverted.
NormalizeDirectionParams(p) ==
    LET backwards == p.last # Null \/ p.before # NoCursor
        limit     == IF backwards THEN p.last ELSE p.first
        str       == IF backwards THEN p.before ELSE p.after
        total     == WithTieBreak(p.sort)
        sort      == IF backwards THEN InvertSort(total) ELSE total
        bad       == /\ str # NoCursor
                     /\ \/ ~WellEncoded(str)
                        \/ Keys(DecodeCursor(str)) # Keys(sort)
    IN  [error  |-> IF limit = Null THEN "MissingLimit"
                    ELSE IF bad THEN "MalformedCursor" ELSE "none",
         limit  |-> limit,
         cursor |-> IF str = NoCursor \/ bad THEN <<>> ELSE DecodeCursor(str),
         sort   |-> sort,
         paginatingBackwards |-> backwards]

\* the keyset "seek" predicate: an $or with one clause per sort field
BuildQueryFromCursor(sort, cursor) ==
    [kind    |-> "or",
     clauses |-> [i \in DOMAIN sort |->
                    [eq    |-> SubSeq(cursor, 1, i - 1),
                     field |-> sort[i][1],
                     op    |-> IF sort[i][2] = 1 THEN "$gt" ELSE "$lt",
                     value |-> cursor[i][2]]]]

(***************************************************************************)
(* aggregatePaginated                                                      *)
(***************************************************************************)
\* Boolean(x) of an optional cursor string: null, undefined and "" are falsy
Boolean(c) == c # NoCursor

\* line 56: { filters: { ...pipeline } }
CountFilter(pipeline) == [filters |-> pipeline]

\* faulty variants of DataPipeline: $limit: limit, without the extra document; and
\* $sort ahead of $skip
DataPipelineNoOverfetch(p, n) ==
    p.pipeline \o
    << [op |-> "$match", arg |-> IF n.cursor # <<>>
                                 THEN BuildQueryFromCursor(n.sort, n.cursor)
                                 ELSE [kind |-> "all"]],
       [op |-> "$skip", arg |-> IF p.skip # Null THEN p.skip ELSE 0],
       [op |-> "$sort", arg |-> n.sort],
       [op |-> "$limit", arg |-> n.limit] >>

DataPipelineSortFirst(p, n) ==
    p.pipeline \o
    << [op |-> "$match", arg |-> IF n.cursor # <<>>
                                 THEN BuildQueryFromCursor(n.sort, n.cursor)
                                 ELSE [kind |-> "all"]],
       [op |-> "$sort", arg |-> n.sort],
       [op |-> "$skip", arg |-> IF p.skip # Null THEN p.skip ELSE 0],
       [op |-> "$limit", arg |-> n.limit + 1] >>

\* lines 61-71: the stages of the data query, in order
DataPipeline(p, n) ==
    p.pipeline \o
    << [op |-> "$match", arg |-> IF n.cursor # <<>>
                                 THEN BuildQueryFromCursor(n.sort, n.cursor)
                                 ELSE [kind |-> "all"]],
       [op |-> "$skip", arg |-> IF p.skip # Null THEN p.skip ELSE 0],
       [op |-> "$sort", arg |-> n.sort],
       [op |-> "$limit", arg |-> n.limit + 1] >>

\* a faulty variant of HasMore: allDocuments[limit + 1]
HasMoreOffByOne(allDocuments, limit) == Len(allDocuments) >= limit + 2

\* lines 75-76: the extra document exists
HasMore(allDocuments, limit) == Len(allDocuments) >= limit + 1

\* faulty variants of DesiredDocuments: no reverse; and slice(0, limit + 1)
DesiredDocumentsNoReverse(allDocuments, limit, paginatingBackwards) ==
    SubSeq(allDocuments, 1, Min(limit, Len(allDocuments)))

DesiredDocumentsKeepExtra(allDocuments, limit, paginatingBackwards) ==
    LET sliced == SubSeq(allDocuments, 1, Min(limit + 1, Len(allDocuments)))
    IN  IF paginatingBackwards THEN Reverse(sliced) ELSE sliced

\* lines 79-82
DesiredDocuments(allDocuments, limit, paginatingBackwards) ==
    LET sliced == SubSeq(allDocuments, 1, Min(limit, Len(allDocuments)))
    IN  IF paginatingBackwards THEN Reverse(sliced) ELSE sliced

\* a faulty variant of Edges: the position carries the direction of each sort field
EdgesDirectionDependent(desiredDocuments, sort) ==
    [i \in DOMAIN desiredDocuments |->
        [cursor |-> EncodeCursor([k \in DOMAIN sort |->
                        <<sort[k][1], sort[k][2] * desiredDocuments[i][sort[k][1]]>>]),
         node   |-> desiredDocuments[i]]]

\* lines 84-87
Edges(desiredDocuments, sort) ==
    [i \in DOMAIN desiredDocuments |->
        [cursor |-> EncodeCursor(BuildCursor(desiredDocuments[i], sort)),
         node   |-> desiredDocuments[i]]]

\* line 93: count || 0
TotalCount(count) == IF count # 0 THEN count ELSE 0

\* faulty variants of the flags: either cursor counts as a previous page; the next
\* page is the overfetch signal in both directions
HasPreviousPageAnyCursor(p, n, hasMore) ==
    IF n.paginatingBackwards THEN hasMore \/ Boolean(p.before) ELSE Boolean(p.after)

HasNextPageSymmetric(p, n, hasMore) == hasMore

\* lines 96-97
HasPreviousPage(p, n, hasMore) ==
    IF n.paginatingBackwards THEN hasMore ELSE Boolean(p.after)

HasNextPage(p, n, hasMore) ==
    IF n.paginatingBackwards THEN Boolean(p.before) ELSE hasMore

\* lines 74-99: the connection built from the two query results
Connection(p, n, count, allDocuments) ==
    LET hasMore == HasMore(allDocuments, n.limit)
        desiredDocuments == DesiredDocuments(allDocuments, n.limit, n.paginatingBackwards)
        edges == Edges(desiredDocuments, n.sort)
    IN  [edges |-> edges,
         pageInfo |->
            [count           |-> Len(desiredDocuments),
             totalCount      |-> TotalCount(count),
             startCursor     |-> IF edges # <<>> THEN edges[1].cursor ELSE NoCursor,
             endCursor       |-> IF edges # <<>> THEN edges[Len(edges)].cursor ELSE NoCursor,
             hasPreviousPage |-> HasPreviousPage(p, n, hasMore),
             hasNextPage     |-> HasNextPage(p, n, hasMore)]]

NoResult ==
    [edges |-> <<>>,
     pageInfo |-> [count |-> 0, totalCount |-> 0, startCursor |-> NoCursor,
                   endCursor |-> NoCursor, hasPreviousPage |-> FALSE,
                   hasNextPage |-> FALSE]]

(***************************************************************************)
(* The requests a caller makes                                             *)
(***************************************************************************)
Sorts ==
    { <<>>,
      << <<"a", 1>> >>,
      << <<"a", -1>> >>,
      << <<"a", 1>>, <<"_id", -1>> >> }

Pipelines ==
    { <<>>,
      << [op |-> "$match", arg |-> [kind |-> "eq", field |-> "a", value |-> 0]] >> }

Skips == {Null, MaxSkip}

GhostDoc == [_id |-> 0, a |-> 0]     \* a document that is no longer stored
Garbage == <<0>>                     \* a string that does not decode
ShortCursor == <<2, 0>>              \* a position without the _id field

\* the cursors a caller may hold for a sort: one per stored document, one of a
\* deleted document, and two malformed strings
CursorInputs(coll, sort) ==
    {EncodeCursor(BuildCursor(d, WithTieBreak(sort))) : d \in Range(coll) \cup {GhostDoc}}
        \cup {Garbage, ShortCursor}

Params(first, after, last, before, skip, pipeline, sort) ==
    [first |-> first, after |-> after, last |-> last, before |-> before,
     skip |-> skip, pipeline |-> pipeline, sort |-> sort]

\* forward (first, optional after), backward (last, optional before), and the
\* shapes that give no limit
Requests(coll) ==
    UNION { UNION { UNION {
        {Params(f, c, Null, NoCursor, sk, pl, so) :
            f \in 0..MaxLimit, c \in {NoCursor} \cup CursorInputs(coll, so)}
        \cup
        {Params(Null, NoCursor, l, c, sk, pl, so) :
            l \in 0..MaxLimit, c \in {NoCursor} \cup CursorInputs(coll, so)}
        \cup
        {Params(Null, c, Null, NoCursor, sk, pl, so) :
            c \in {NoCursor, EncodeCursor(BuildCursor(GhostDoc, WithTieBreak(so)))}}
        : so \in Sorts} : pl \in Pipelines} : sk \in Skips}

\* the first request of a forward walk: first = L >= 1, no cursor, no skip
FirstPages ==
    {Params(f, NoCursor, Null, NoCursor, Null, pl, so) :
        f \in 1..MaxLimit, pl \in Pipelines, so \in Sorts}

NoRequest == Params(Null, NoCursor, Null, NoCursor, Null, <<>>, <<>>)

Ids(edges) == [i \in DOMAIN edges |-> edges[i].node._id]

(***************************************************************************)
(* Spec: calls whose two queries the store answers                         *)
(***************************************************************************)
Start(coll) ==
    /\ docs = coll
    /\ pc = "idle"
    /\ req = NoRequest
    /\ countQ = "idle"
    /\ dataQ = "idle"
    /\ counted = 0
    /\ fetched = <<>>
    /\ result = NoResult
    /\ error = "none"
    /\ pages = <<>>
    /\ walking = FALSE

Init == \E coll \in Collections(NumDocs) : Start(coll)

\* lines 33-99, run to completion
Invoke(p) ==
    LET n == NormalizeDirectionParams(p)
    IN  /\ req' = p
        /\ IF n.error # "none"
           THEN /\ pc' = "rejected"
                /\ error' = n.error
                /\ UNCHANGED <<countQ, dataQ, counted, fetched, result>>
           ELSE LET count == CountDocuments(docs, CountFilter(p.pipeline))
                    allDocuments == Aggregate(docs, DataPipeline(p, n))
                IN  /\ pc' = "resolved"
                    /\ countQ' = "ok"
                    /\ dataQ' = "ok"
                    /\ counted' = count
                    /\ fetched' = allDocuments
                    /\ result' = Connection(p, n, count, allDocuments)
                    /\ UNCHANGED error

Call ==
    /\ pc = "idle"
    /\ \E p \in Requests(docs) : Invoke(p)
    /\ UNCHANGED <<docs, pages, walking>>

FirstPage ==
    /\ pc = "idle"
    /\ \E p \in FirstPages : Invoke(p)
    /\ walking' = TRUE
    /\ pages' = <<Ids(result'.edges)>>
    /\ UNCHANGED docs

NextPage ==
    /\ pc = "resolved"
    /\ walking
    /\ result.pageInfo.hasNextPage
    /\ Invoke([req EXCEPT !.after = result.pageInfo.endCursor])
    /\ pages' = Append(pages, Ids(result'.edges))
    /\ UNCHANGED <<docs, walking>>

Next == Call \/ FirstPage \/ NextPage

Spec == Init /\ [][Next]_vars

(***************************************************************************)
(* SpecAsync: the two queries as promises that settle in any order, each   *)
(* resolving or rejecting                                                  *)
(***************************************************************************)
AsyncInit == \E coll \in Collections(AsyncDocs) : Start(coll)

\* a faulty variant of PromiseAll: Promise.allSettled, a failed count read as 0
PromiseAllSettled(now, cq, dq) ==
    IF now # "awaiting" THEN now
    ELSE IF dq = "err" THEN "rejected"
    ELSE IF cq \in {"ok", "err"} /\ dq = "ok" THEN "resolved"
    ELSE "awaiting"

\* line 55: the state of `await Promise.all([count, data])` given the states
\* of its two promises
PromiseAll(now, cq, dq) ==
    IF now # "awaiting" THEN now
    ELSE IF cq = "err" \/ dq = "err" THEN "rejected"
    ELSE IF cq = "ok" /\ dq = "ok" THEN "resolved"
    ELSE "awaiting"

\* lines 45-72: normalize, then issue both queries
AsyncInvoke ==
    /\ pc = "idle"
    /\ \E p \in Requests(docs) :
          LET n == NormalizeDirectionParams(p)
          IN  /\ req' = p
              /\ IF n.error # "none"
                 THEN /\ pc' = "rejected"
                      /\ error' = n.error
                      /\ UNCHANGED <<countQ, dataQ>>
                 ELSE /\ pc' = "awaiting"
                      /\ countQ' = "inflight"
                      /\ dataQ' = "inflight"
                      /\ UNCHANGED error
    /\ UNCHANGED <<docs, counted, fetched, result, pages, walking>>

\* lines 74-99 run once Promise.all has resolved
Continue(count, allDocuments) ==
    result' = IF pc' = "resolved"
              THEN Connection(req, NormalizeDirectionParams(req), count, allDocuments)
              ELSE result

CountResolve ==
    /\ countQ = "inflight"
    /\ countQ' = "ok"
    /\ counted' = CountDocuments(docs, CountFilter(req.pipeline))
    /\ pc' = PromiseAll(pc, "ok", dataQ)
    /\ Continue(counted', fetched)
    /\ UNCHANGED <<docs, req, dataQ, fetched, error, pages, walking>>

CountReject ==
    /\ countQ = "inflight"
    /\ countQ' = "err"
    /\ pc' = PromiseAll(pc, "err", dataQ)
    /\ error' = IF pc = "awaiting" /\ pc' = "rejected" THEN "CountError" ELSE error
    /\ UNCHANGED <<docs, req, dataQ, counted, fetched, result, pages, walking>>

DataResolve ==
    /\ dataQ = "inflight"
    /\ dataQ' = "ok"
    /\ fetched' = Aggregate(docs, DataPipeline(req, NormalizeDirectionParams(req)))
    /\ pc' = PromiseAll(pc, countQ, "ok")
    /\ Continue(counted, fetched')
    /\ UNCHANGED <<docs, req, countQ, counted, error, pages, walking>>

DataReject ==
    /\ dataQ = "inflight"
    /\ dataQ' = "err"
    /\ pc' = PromiseAll(pc, countQ, "err")
    /\ error' = IF pc = "awaiting" /\ pc' = "rejected" THEN "DataError" ELSE error
    /\ UNCHANGED <<docs, req, countQ, counted, fetched, result, pages, walking>>

AsyncNext == AsyncInvoke \/ CountResolve \/ CountReject \/ DataResolve \/ DataReject

SpecAsync == AsyncInit /\ [][AsyncNext]_vars

(***************************************************************************)
(* What the properties speak about, stated from the request and the        *)
(* collection alone                                                        *)
(***************************************************************************)
Resolved == pc = "resolved"
Norm == NormalizeDirectionParams(req)
Backwards == req.last # Null \/ req.before # NoCursor
SkipCount == IF req.skip = Null THEN 0 ELSE req.skip

\* the caller's order made total, never inverted
CallerSort == WithTieBreak(req.sort)

MatchesPrefix(d) ==
    \A i \in DOMAIN req.pipeline : d[req.pipeline[i].arg.field] = req.pipeline[i].arg.value

\* the unpaginated full list: the matching documents in the caller's order
FullList == SortDocs(SelectSeq(docs, MatchesPrefix), CallerSort)

DocIds(s) == [i \in DOMAIN s |-> s[i]._id]

PositionDoc(position) ==
    [f \in Range(Keys(position)) |->
        position[CHOOSE i \in DOMAIN position : position[i][1] = f][2]]

\* the order of travel: the caller's order, inverted when going backward
TravelSort == IF Backwards THEN InvertSort(CallerSort) ELSE CallerSort

\* the position the supplied cursor names
Supplied == IF Backwards THEN req.before ELSE req.after

\* the documents strictly beyond the supplied cursor in the order of travel
InRange ==
    LET travel == TravelSort
        from == PositionDoc(DecodeCursor(Supplied))
    IN  {d \in Range(docs) :
            MatchesPrefix(d) /\ (Supplied = NoCursor \/ Before(from, d, travel))}

\* n: the documents left after the prefix, the cursor range filter and skip
Remaining == Max(0, Cardinality(InRange) - SkipCount)

CursorOf(d) == EncodeCursor(BuildCursor(d, CallerSort))

RECURSIVE Flatten(_)
Flatten(ss) == IF ss = <<>> THEN <<>> ELSE Head(ss) \o Flatten(Tail(ss))

WalkDone == walking /\ Resolved /\ ~result.pageInfo.hasNextPage

DocById(id) == CHOOSE d \in Range(docs) : d._id = id

\* C1: a forward walk (first = L >= 1, no skip, after = the previous
\* endCursor) that has reached hasNextPage = false has returned, page after
\* page, exactly the full list of matching documents in the caller's order.
C1_ForwardWalkReproducesFullList ==
    WalkDone =>
        LET full == FullList
        IN  /\ Flatten(pages) = DocIds(full)
            /\ \A i, j \in DOMAIN full :
                  i < j => ~Before(full[j], full[i], req.sort)

C1_Witness ==
    /\ WalkDone
    /\ Len(pages) >= 3
    /\ req.sort = << <<"a", -1>> >>
    /\ Len(FullList) >= 4
    /\ FullList[1].a # FullList[Len(FullList)].a
    /\ DocIds(FullList) # DocIds(docs)

\* C2: under a sort without a unique field, the pages of a forward walk never
\* repeat a document and never return a non-matching one, and a finished walk
\* has returned every matching document exactly once, ties included.
C2_NoSkipNoDuplicate ==
    (walking /\ Resolved /\ ~HasKey(req.sort, "_id")) =>
        LET seen == Flatten(pages)
        IN  /\ \A i, j \in DOMAIN seen : seen[i] = seen[j] => i = j
            /\ \A i \in DOMAIN seen : \E d \in Range(docs) : d._id = seen[i] /\ MatchesPrefix(d)
            /\ WalkDone =>
                  \A d \in Range(docs) :
                      MatchesPrefix(d) =>
                          Cardinality({<<k, i>> \in (DOMAIN pages) \X (1..NumDocs) :
                                          i <= Len(pages[k]) /\ pages[k][i] = d._id}) = 1

C2_Witness ==
    /\ WalkDone
    /\ ~HasKey(req.sort, "_id")
    /\ req.sort # <<>>
    /\ Len(pages) >= 2
    /\ pages[1] # <<>> /\ pages[2] # <<>>
    /\ DocById(pages[1][Len(pages[1])]).a = DocById(pages[2][1]).a

\* C3: last = L with before = the cursor of the document at 0-based index k
\* of the full list (no skip) returns the documents at indices
\* max(0, k-L) .. k-1 in ascending index order.
C3_BackwardPage ==
    (Resolved /\ req.last # Null /\ req.skip = Null) =>
        LET full == FullList
        IN  \A k \in DOMAIN full :
                req.before = CursorOf(full[k]) =>
                    DocIds([i \in DOMAIN result.edges |-> result.edges[i].node])
                        = DocIds(SubSeq(full, Max(1, k - req.last), k - 1))

C3_Witness ==
    /\ Resolved
    /\ req.last = 2
    /\ req.skip = Null
    /\ req.sort = << <<"a", 1>> >>
    /\ Len(FullList) >= 4
    /\ req.before = CursorOf(FullList[4])
    /\ Len(result.edges) = 2
    /\ result.edges[1].node = FullList[2]
    /\ result.edges[2].node = FullList[3]
    /\ FullList[2]._id > FullList[3]._id

\* C4: totalCount is the number of documents matching the pipeline prefix,
\* whatever skip, first, last, after and before are.
C4_TotalCount ==
    Resolved =>
        result.pageInfo.totalCount = Cardinality({d \in Range(docs) : MatchesPrefix(d)})

\* C5: backward, hasPreviousPage is the overfetch signal and hasNextPage is
\* the presence of before; forward, hasPreviousPage is the presence of after
\* and hasNextPage is the overfetch signal.
C5_PageFlags ==
    Resolved =>
        LET hasMore == Remaining > (IF Backwards THEN req.last ELSE req.first)
        IN  IF Backwards
            THEN /\ result.pageInfo.hasPreviousPage = hasMore
                 /\ result.pageInfo.hasNextPage = (req.before # NoCursor)
            ELSE /\ result.pageInfo.hasPreviousPage = (req.after # NoCursor)
                 /\ result.pageInfo.hasNextPage = hasMore

\* the cursor of a deleted document still sets the flag
C5_Witness ==
    /\ Resolved
    /\ Backwards
    /\ req.before = CursorOf(GhostDoc)
    /\ result.pageInfo.hasNextPage
    /\ result.pageInfo.hasPreviousPage
    /\ result.edges # <<>>

\* C6: for limit >= 1, with n documents remaining, edges.length = count =
\* min(limit, n), the extra fetched document is no edge, and the overfetch
\* flag is n > limit; on 5 documents sorted by a unique field, first = 3 has a
\* next page, and first = 3 after the third document gives 2 edges and none.
C6_OverfetchProbe ==
    LET limit == IF Backwards THEN req.last ELSE req.first
        n == Remaining
    IN  (Resolved /\ limit >= 1) =>
        /\ Len(result.edges) = Min(limit, n)
        /\ result.pageInfo.count = Len(result.edges)
        /\ (IF Backwards THEN result.pageInfo.hasPreviousPage
                         ELSE result.pageInfo.hasNextPage) = (n > limit)
        /\ Len(fetched) <= limit + 1
        /\ Len(fetched) = limit + 1 =>
              \A i \in DOMAIN result.edges : result.edges[i].node # fetched[limit + 1]
        /\ (/\ Len(docs) = 5 /\ req.pipeline = <<>> /\ req.skip = Null
            /\ ~HasKey(req.sort, "a") /\ req.first = 3) =>
              /\ req.after = NoCursor => result.pageInfo.hasNextPage
              /\ req.after = CursorOf(FullList[3]) =>
                    Len(result.edges) = 2 /\ ~result.pageInfo.hasNextPage

C6_Witness ==
    /\ Resolved
    /\ Len(docs) = 5 /\ req.pipeline = <<>> /\ req.skip = Null
    /\ req.sort = <<>>
    /\ req.first = 3
    /\ req.after = CursorOf(FullList[3])
    /\ Len(result.edges) = 2
    /\ ~result.pageInfo.hasNextPage

\* C7 as claimed: an empty data result gives no edges, null cursors,
\* hasNextPage = false in either direction, and hasPreviousPage per the rule.
C7_EmptyResultAsClaimed ==
    (Resolved /\ fetched = <<>>) =>
        /\ result.edges = <<>>
        /\ result.pageInfo.startCursor = NoCursor
        /\ result.pageInfo.endCursor = NoCursor
        /\ result.pageInfo.hasNextPage = FALSE
        /\ result.pageInfo.hasPreviousPage = (~Backwards /\ req.after # NoCursor)

\* C7 amended: an empty data result gives no edges and null cursors; forward,
\* hasNextPage is false and hasPreviousPage is the presence of after;
\* backward, hasNextPage is the presence of before and hasPreviousPage is
\* false.
C7_EmptyResult ==
    (Resolved /\ fetched = <<>>) =>
        /\ result.edges = <<>>
        /\ result.pageInfo.count = 0
        /\ result.pageInfo.startCursor = NoCursor
        /\ result.pageInfo.endCursor = NoCursor
        /\ result.pageInfo.hasNextPage = (Backwards /\ req.before # NoCursor)
        /\ result.pageInfo.hasPreviousPage = (~Backwards /\ req.after # NoCursor)

C7_Witness ==
    /\ Resolved
    /\ fetched = <<>>
    /\ docs # <<>>
    /\ Backwards
    /\ req.before = CursorOf(FullList[1])
    /\ result.pageInfo.hasNextPage
    /\ ~result.pageInfo.hasPreviousPage

\* C8: the two queries are issued together; in every order of completion a
\* failed query (or a failed normalization) ends the call with that error,
\* for good, with no query issued again and no connection yielded; a
\* connection is yielded only once both queries have succeeded.
C8_StateOk ==
    /\ (countQ = "idle") = (dataQ = "idle")
    /\ pc = "awaiting" => countQ # "idle"
    /\ pc = "resolved" =>
          /\ countQ = "ok" /\ dataQ = "ok" /\ error = "none"
          /\ result = Connection(req, Norm, counted, fetched)
    /\ pc # "resolved" => result = NoResult
    /\ (countQ = "err" \/ dataQ = "err") => pc = "rejected"
    /\ pc = "rejected" =>
          /\ error \in {"MissingLimit", "MalformedCursor", "CountError", "DataError"}
          /\ error = "CountError" => countQ = "err"
          /\ error = "DataError" => dataQ = "err"
          /\ error \in {"MissingLimit", "MalformedCursor"} => countQ = "idle"
          /\ error = Norm.error \/ Norm.error = "none"

C8_StepOk ==
    /\ pc = "rejected" => pc' = "rejected" /\ error' = error /\ result' = NoResult
    /\ pc = "resolved" => UNCHANGED vars
    /\ countQ \in {"ok", "err"} => countQ' = countQ
    /\ dataQ \in {"ok", "err"} => dataQ' = dataQ

C8_NoPartialResults == [](C8_StateOk) /\ [][C8_StepOk]_vars

\* the count query failed first and the data query then succeeded: no result
C8_Witness ==
    /\ pc = "rejected"
    /\ error = "CountError"
    /\ dataQ = "ok"
    /\ fetched # <<>>
    /\ result = NoResult

\* C9: the cursor of every edge, forward or backward, is the position of its
\* document under the caller's (never inverted) sort, so it is the same in both
\* directions and is accepted as after and as before by a later call.
C9_CursorIgnoresDirection ==
    Resolved =>
        \A i \in DOMAIN result.edges :
            LET e == result.edges[i]
            IN  /\ e.cursor = CursorOf(e.node)
                /\ NormalizeDirectionParams(
                       [req EXCEPT !.first = 1, !.after = e.cursor,
                                   !.last = Null, !.before = NoCursor]).error = "none"
                /\ NormalizeDirectionParams(
                       [req EXCEPT !.first = Null, !.after = NoCursor,
                                   !.last = 1, !.before = e.cursor]).error = "none"

C9_Witness ==
    /\ Resolved
    /\ Backwards
    /\ req.sort = << <<"a", 1>>, <<"_id", -1>> >>
    /\ Len(result.edges) >= 2
    /\ result.edges[1].node.a # result.edges[2].node.a

\* the documents the query keeps before $skip, in the store's order
Filtered == LET keep == InRange IN SelectSeq(docs, LAMBDA d : d \in keep)

TakeFirst(s, k) == SubSeq(s, 1, Min(k, Len(s)))

\* the returned nodes in the order the query produced them
PageInQueryOrder ==
    LET nodes == [i \in DOMAIN result.edges |-> result.edges[i].node]
    IN  IF Backwards THEN Reverse(nodes) ELSE nodes

PageLimit == IF Backwards THEN req.last ELSE req.first

\* drop the first s documents of f (the store's order), then sort, then cut
SkipThenSort(f) ==
    TakeFirst(SortDocs(SubSeq(f, SkipCount + 1, Len(f)), TravelSort), PageLimit)

\* the documents at positions s .. s+limit-1 of the sorted list
SortedWindow(sorted) ==
    TakeFirst(SubSeq(sorted, SkipCount + 1, Len(sorted)), PageLimit)

\* C10 as claimed: skip is applied before sort, and with skip >= 1 a
\* non-empty page is the sorted window only when the store's order agrees
\* with the sort order.
C10_SkipBeforeSortAsClaimed ==
    Resolved =>
        LET page == PageInQueryOrder
            f == Filtered
            sorted == SortDocs(f, TravelSort)
        IN  /\ page = SkipThenSort(f)
            /\ (SkipCount >= 1 /\ page # <<>> /\ page = SortedWindow(sorted)) => f = sorted

\* C10 amended: skip is applied before sort: the page is the first `limit`
\* documents, in sort order, of what is left after dropping the first s in
\* the store's order; it is the sorted window whenever the store's order
\* agrees with the sort order (and may or may not be when it does not).
C10_SkipBeforeSort ==
    Resolved =>
        LET page == PageInQueryOrder
            f == Filtered
            sorted == SortDocs(f, TravelSort)
        IN  /\ page = SkipThenSort(f)
            /\ f = sorted => page = SortedWindow(sorted)

\* a page that is not the sorted window
C10_Witness ==
    /\ Resolved
    /\ SkipCount >= 1
    /\ PageLimit >= 2
    /\ Len(result.edges) = PageLimit
    /\ PageInQueryOrder = SkipThenSort(Filtered)
    /\ PageInQueryOrder # SortedWindow(SortDocs(Filtered, TravelSort))

====
